---- MODULE Spec2Model ----
(***************************************************************************)
(* dotnet-lens: parser::parse, the walk of a .NET project file's element   *)
(* tree that fills a Project record (src/src/parser.rs, src/src/lib.rs),   *)
(* under Spec, and search::search_projects, the recursive directory walk   *)
(* (src/src/search.rs), under SearchSpec.                                  *)
(*                                                                         *)
(* Strings are sequences of tokens.  A token is one character that the     *)
(* code inspects (".", "/", "\\"), or a run of characters it never looks   *)
(* inside ("csproj", "TestProject", ...).  BadByte is a byte sequence that *)
(* is not valid UTF-8 (possible in a Unix OsStr, never in a &str).         *)
(* Option values are sequences of length 0 (None) or 1 (Some).             *)
(***************************************************************************)
EXTENDS Integers, Sequences, FiniteSets, TLC

\* Root children plus ItemGroup children of the documents the walk is run on.
MaxElems == 4
\* The same for the documents that are paired with every path, and for the
\* elements that precede the defect of a malformed document.
MaxSmallElems == 3
\* Number of entries below the root directory that search_projects is run on.
MaxEntries == 3

None == <<>>
Some(x) == <<x>>

BadByte == "<0xFF>"

----------------------------------------------------------------------------
(* std::path::Path as used by the program *)

Max(S) == CHOOSE x \in S : \A y \in S : y <= x
Min(S) == CHOOSE x \in S : \A y \in S : x <= y

RECURSIVE Split(_)
Split(s) ==
  LET seps == {k \in 1..Len(s) : s[k] = "/"} IN
  IF seps = {} THEN <<s>>
  ELSE LET k == Min(seps) IN <<SubSeq(s, 1, k - 1)>> \o Split(SubSeq(s, k + 1, Len(s)))

\* Path::file_name: the last component, if it is a normal one.  Empty
\* components and "." components are not components of the path.
file_name(p) ==
  LET comps == SelectSeq(Split(p), LAMBDA c : c # <<>> /\ c # <<".">>) IN
  IF comps = <<>> THEN None
  ELSE IF comps[Len(comps)] = <<".", ".">> THEN None
  ELSE Some(comps[Len(comps)])

\* std's rsplit_file_at_dot: (before, after) the last dot of a file name.
rsplit_file_at_dot(file) ==
  LET dots == {k \in 1..Len(file) : file[k] = "."} IN
  IF file = <<".", ".">> THEN [before |-> Some(file), after |-> None]
  ELSE IF dots = {} THEN [before |-> None, after |-> Some(file)]
  ELSE LET k == Max(dots)
           before == SubSeq(file, 1, k - 1)
           after == SubSeq(file, k + 1, Len(file)) IN
       IF before = <<>> THEN [before |-> Some(file), after |-> None]
       ELSE [before |-> Some(before), after |-> Some(after)]

file_stem(p) ==
  LET fn == file_name(p) IN
  IF fn = None THEN None
  ELSE LET r == rsplit_file_at_dot(fn[1]) IN
       IF r.before # None THEN r.before ELSE r.after

extension(p) ==
  LET fn == file_name(p) IN
  IF fn = None THEN None
  ELSE LET r == rsplit_file_at_dot(fn[1]) IN
       IF r.before # None THEN r.after ELSE None

\* OsStr::to_str: None unless the bytes are valid UTF-8.
to_str(os) == IF \E k \in 1..Len(os) : os[k] = BadByte THEN None ELSE Some(os)

\* str::replace(from, to) for one-character patterns.
replace(s, from, to) == [k \in 1..Len(s) |-> IF s[k] = from THEN to ELSE s[k]]

----------------------------------------------------------------------------
(* lib.rs *)

VALID_EXTENSIONS == {<<"csproj">>, <<"fsproj">>, <<"vbproj">>}

from_extension_swapped(ext) ==
  IF ext = <<"csproj">> THEN Some("CSharp")
  ELSE IF ext = <<"fsproj">> THEN Some("VB")
  ELSE IF ext = <<"vbproj">> THEN Some("FSharp")
  ELSE None

from_extension(ext) ==
  IF ext = <<"csproj">> THEN Some("CSharp")
  ELSE IF ext = <<"fsproj">> THEN Some("FSharp")
  ELSE IF ext = <<"vbproj">> THEN Some("VB")
  ELSE None

get_project_name(p) ==
  LET stem == file_stem(p) IN
  IF stem = None THEN None ELSE to_str(stem[1])

ProjectReference_new(name, p) == [name |-> name, path |-> p]
PackageReference_new(name, version) == [name |-> name, version |-> version]

----------------------------------------------------------------------------
(* The element tree the XML reader hands to the walk *)

Elem(name, atts, nodes) == [name |-> name, atts |-> atts, nodes |-> nodes]
TextNode(s) == [kind |-> "text", text |-> s]
ElemNode(e) == [kind |-> "elem", elem |-> e]
Att(name, value) == [name |-> name, value |-> value]

\* Element::elements: the child elements, in document order.
elements(e) ==
  LET es == SelectSeq(e.nodes, LAMBDA n : n.kind = "elem") IN
  [k \in 1..Len(es) |-> es[k].elem]

\* Element::att_req: the value of the named attribute, or an error.
att_req(e, name) ==
  LET hits == {k \in 1..Len(e.atts) : e.atts[k].name = name} IN
  IF hits = {} THEN [ok |-> FALSE, val |-> <<>>]
  ELSE [ok |-> TRUE, val |-> e.atts[Min(hits)].value]

\* Element::opt(name): the first child element of that name, if any.
opt(e, name) ==
  LET es == elements(e)
      hits == {k \in 1..Len(es) : es[k].name = name} IN
  IF hits = {} THEN None ELSE Some(es[Min(hits)])

\* text() of an optional element: Ok(None) when the element is absent or
\* empty, Ok(Some(text)) when its content is text only, and an XmlError when
\* it has element content.
text(oe) ==
  IF oe = None \/ oe[1].nodes = <<>> THEN [ok |-> TRUE, val |-> None]
  ELSE IF \A k \in 1..Len(oe[1].nodes) : oe[1].nodes[k].kind = "text"
       THEN [ok |-> TRUE, val |-> Some(oe[1].nodes[1].text)]
  ELSE [ok |-> FALSE, val |-> None]

----------------------------------------------------------------------------
(* parser.rs *)

Ok(p) == [err |-> "", project |-> p]
Err(e) == [err |-> e, project |-> <<>>]

\* impl From<XmlError> for ParseError
FromXmlError == "DeserializationError"

\* #[from] io::Error, the error type of XmlReader::parse_auto
FromIoError_asDeserialization == "DeserializationError"
FromIoError == "IoError"

handle_property_group_last_wins(p, element) ==
  LET t == text(opt(element, "TargetFramework")) IN
  IF ~t.ok THEN Err(FromXmlError)
  ELSE IF t.val = None THEN Ok(p) ELSE Ok([p EXCEPT !.target_framework = t.val])

handle_property_group(p, element) ==
  IF p.target_framework # None THEN Ok(p)
  ELSE LET t == text(opt(element, "TargetFramework")) IN
       IF ~t.ok THEN Err(FromXmlError)
       ELSE Ok([p EXCEPT !.target_framework = t.val])

normalize_identity(include) == include
normalize(include) == replace(include, "\\", "/")

push_dedup(vec, x) == IF \E k \in 1..Len(vec) : vec[k] = x THEN vec ELSE Append(vec, x)
push(vec, x) == Append(vec, x)

\* The "ProjectReference" arm of handle_item_group's match.
project_reference_arm_coalesced(p, item) ==
  LET inc == att_req(item, "Include") IN
  IF ~inc.ok THEN Err("DeserializationError")
  ELSE LET path == normalize(inc.val)
           name == get_project_name(path) IN
       IF name = None THEN Err("DeserializationError")
       ELSE Ok([p EXCEPT !.project_references =
                  push(@, ProjectReference_new(name[1], path))])

project_reference_arm_errors_swapped(p, item) ==
  LET inc == att_req(item, "Include") IN
  IF ~inc.ok THEN Err("FileDoesNotHaveAName")
  ELSE LET path == normalize(inc.val)
           name == get_project_name(path) IN
       IF name = None THEN Err("DeserializationError")
       ELSE Ok([p EXCEPT !.project_references =
                  push(@, ProjectReference_new(name[1], path))])

project_reference_arm(p, item) ==
  LET inc == att_req(item, "Include") IN
  IF ~inc.ok THEN Err("DeserializationError")
  ELSE LET path == normalize(inc.val)
           name == get_project_name(path) IN
       IF name = None THEN Err("FileDoesNotHaveAName")
       ELSE Ok([p EXCEPT !.project_references =
                  push(@, ProjectReference_new(name[1], path))])

package_reference_arm_lenient(p, item) ==
  LET name == att_req(item, "Include")
      version == att_req(item, "Version") IN
  IF ~name.ok THEN Err("DeserializationError")
  ELSE Ok([p EXCEPT !.package_references =
             push(@, PackageReference_new(name.val, version.val))])

\* The "PackageReference" arm of handle_item_group's match.
package_reference_arm(p, item) ==
  LET name == att_req(item, "Include")
      version == att_req(item, "Version") IN
  IF ~name.ok THEN Err("DeserializationError")
  ELSE IF ~version.ok THEN Err("DeserializationError")
  ELSE Ok([p EXCEPT !.package_references =
             push(@, PackageReference_new(name.val, version.val))])

\* The match of fill_project_based_on_xml on a root child's local name.
root_dispatch_greedy(name) ==
  IF name = "PropertyGroup" THEN "PropertyGroup" ELSE "ItemGroup"
root_dispatch(name) ==
  IF name = "PropertyGroup" THEN "PropertyGroup"
  ELSE IF name = "ItemGroup" THEN "ItemGroup"
  ELSE "ignore"

\* The match of handle_item_group on an ItemGroup child's local name.
item_dispatch(name) ==
  IF name = "ProjectReference" THEN "ProjectReference"
  ELSE IF name = "PackageReference" THEN "PackageReference"
  ELSE "ignore"

\* path.extension().and_then(ProjectLanguage::from_extension)
language_of_suffix(p) == IF p = <<>> THEN None ELSE from_extension(<<p[Len(p)]>>)
language_of(p) ==
  LET ext == extension(p) IN
  IF ext = None THEN None ELSE from_extension(ext[1])

\* The checks of parse on its path, in order; "" when they all pass.
path_checks_extension_first(p, dir) ==
  IF language_of(p) = None THEN "FileIsNotAProject"
  ELSE IF dir THEN "PathIsNotAFile"
  ELSE IF get_project_name(p) = None THEN "FileDoesNotHaveAName"
  ELSE ""

path_checks(p, dir) ==
  IF dir THEN "PathIsNotAFile"
  ELSE IF language_of(p) = None THEN "FileIsNotAProject"
  ELSE IF get_project_name(p) = None THEN "FileDoesNotHaveAName"
  ELSE ""

\* The Project that parse constructs before it reads the document.
new_project(p) ==
  [name |-> get_project_name(p)[1],
   language |-> language_of(p)[1],
   path |-> p,
   target_framework |-> None,
   project_references |-> <<>>,
   package_references |-> <<>>]

----------------------------------------------------------------------------
(* Inputs *)

Dot == "."
Sep == "/"
Bsl == "\\"

Paths ==
  { <<Dot, Sep, "TestProject", Dot, "csproj">>,
    <<Dot, Sep, "TestProject", Dot, "fsproj">>,
    <<Dot, Sep, "TestProject", Dot, "vbproj">>,
    <<Dot, Sep, "TestProject", Dot, "txt">>,
    <<Dot, Sep, "TestProject">>,
    <<Dot, Sep, Dot, "csproj">>,
    <<Dot, Sep, Dot, Dot, "csproj">>,
    <<Dot, Sep, BadByte, Dot, "csproj">>,
    <<Dot, Sep>> }

\* "./" can only be a directory; any other path may name a file or a directory.
PathInputs == {pd \in Paths \X BOOLEAN : pd[1] = <<Dot, Sep>> => pd[2]}

IncludeA == <<Dot, Dot, Bsl, "A", Bsl, "A", Dot, "csproj">>
IncludeB == <<"B", Dot, "fsproj">>
IncludeNoStem == <<Dot, Dot>>

OutputType == Elem("OutputType", <<>>, <<TextNode(<<"Exe">>)>>)
TargetFramework(nodes) == Elem("TargetFramework", <<>>, nodes)
PropertyGroup(children) ==
  Elem("PropertyGroup", <<>>, [k \in 1..Len(children) |-> ElemNode(children[k])])

TargetFrameworks ==
  { TargetFramework(<<>>),
    TargetFramework(<<TextNode(<<"net8.0">>)>>),
    TargetFramework(<<TextNode(<<"net6.0">>)>>),
    TargetFramework(<<ElemNode(OutputType)>>) }

PropertyGroups ==
  {PropertyGroup(<<OutputType>>)}
    \cup {PropertyGroup(<<OutputType, tf>>) : tf \in TargetFrameworks}

ProjectReferences ==
  { Elem("ProjectReference", <<>>, <<>>),
    Elem("ProjectReference", <<Att("Include", IncludeA)>>, <<>>),
    Elem("ProjectReference", <<Att("Include", IncludeB)>>, <<>>),
    Elem("ProjectReference", <<Att("Include", IncludeNoStem)>>, <<>>) }

PackageReferences ==
  { Elem("PackageReference", <<Att("Include", <<"X">>), Att("Version", <<"1.2.3">>)>>, <<>>),
    Elem("PackageReference", <<Att("Include", <<"Y">>), Att("Version", <<"8.0.0">>)>>, <<>>),
    Elem("PackageReference", <<Att("Include", <<"X">>)>>, <<>>),
    Elem("PackageReference", <<Att("Version", <<"1.2.3">>)>>, <<>>) }

\* Elements the walk has no arm for, each with a defective reference inside.
Compile ==
  Elem("Compile", <<Att("Include", <<"Program", Dot, "fs">>)>>,
       <<ElemNode(Elem("PackageReference", <<Att("Include", <<"X">>)>>, <<>>))>>)
Target ==
  Elem("Target", <<Att("Name", <<"Build">>)>>,
       <<ElemNode(Elem("ProjectReference", <<>>, <<>>))>>)

Items == ProjectReferences \cup PackageReferences \cup {Compile}

ItemGroup(items) ==
  Elem("ItemGroup", <<>>, [k \in 1..Len(items) |-> ElemNode(items[k])])

\* A document outline lists the root children and the ItemGroup children in
\* document order: an item belongs to the ItemGroup that is open before it.
Outline(n) == [1..n -> PropertyGroups \cup {Target, ItemGroup(<<>>)} \cup Items]

IsOutline(f) ==
  \A k \in 1..Len(f) :
    f[k] \in Items => k > 1 /\ (f[k - 1] \in Items \/ f[k - 1] = ItemGroup(<<>>))

RECURSIVE Children(_)
Children(f) ==
  IF f = <<>> THEN <<>>
  ELSE LET prev == Children(SubSeq(f, 1, Len(f) - 1))
           x == f[Len(f)] IN
       IF x \in Items
       THEN [prev EXCEPT ![Len(prev)].nodes = Append(@, ElemNode(x))]
       ELSE Append(prev, x)

Document(children) ==
  Elem("Project", <<Att("Sdk", <<"Microsoft", Dot, "NET", Dot, "Sdk">>)>>,
       [k \in 1..Len(children) |-> ElemNode(children[k])])

\* What the reader yields: a well-formed document, or text the XML reader
\* rejects (root holds the elements that precede the defect; no element at
\* all is the empty content).
Content(wf, f) == [wf |-> wf, root |-> Document(Children(f))]

\* The path checks never look at the content and the walk never looks at the
\* path: every path meets every small content, the larger documents meet the
\* path of test::parse_valid_vbproj.
TestPath == <<Dot, Sep, "TestProject", Dot, "vbproj">>

----------------------------------------------------------------------------
(* State of search_projects *)

VARIABLES
  fs,              \* the entries below the root directory, in listing order
  rootReadable,    \* whether fs::read_dir succeeds on the root
  sPc,             \* "idle", "start", "run" or "done"
  stack,           \* the active calls of search_projects, innermost last
  visited,         \* history: the entries the loops have taken, in order
  returned,        \* the Vec the outermost call returned, as an Option
  sResult          \* "" while running, then "Ok" or "IoError"

searchVars == <<fs, rootReadable, sPc, stack, visited, returned, sResult>>

\* No search is running.
SearchIdle ==
  /\ fs = <<>>
  /\ rootReadable = TRUE
  /\ sPc = "idle"
  /\ stack = <<>>
  /\ visited = <<>>
  /\ returned = None
  /\ sResult = ""

----------------------------------------------------------------------------
(* State of parse *)

VARIABLES
  path,            \* parse's path argument
  isDir,           \* path.is_dir()
  content,         \* what the reader yields
  readerConsumed,  \* whether parse has read from the reader
  pc,              \* "start", "walk" or "done"
  project,         \* parse's local Project, as an Option
  i,               \* index of the root child the walk is at
  j,               \* index of the ItemGroup child the walk is at
  result           \* "" while running, then "Ok" or the ParseError

parseVars == <<path, isDir, content, readerConsumed, pc, project, i, j, result>>
vars == <<parseVars, searchVars>>
inputs == <<path, isDir, content>>

Init ==
  /\ \/ \E n \in 0..MaxSmallElems : \E f \in Outline(n) : \E wf \in BOOLEAN :
          /\ IsOutline(f)
          /\ content = Content(wf, f)
          /\ \E pd \in PathInputs : path = pd[1] /\ isDir = pd[2]
     \/ \E n \in 0..MaxElems : \E f \in Outline(n) :
          /\ IsOutline(f)
          /\ content = Content(TRUE, f)
          /\ path = TestPath
          /\ isDir = FALSE
  /\ readerConsumed = FALSE
  /\ pc = "start"
  /\ project = None
  /\ i = 1
  /\ j = 1
  /\ result = ""
  /\ SearchIdle

Root == elements(content.root)
AtRoot == pc = "walk" /\ i <= Len(Root)
AtItem == AtRoot /\ root_dispatch(Root[i].name) = "ItemGroup" /\ j <= Len(elements(Root[i]))
Item == elements(Root[i])[j]

Fail(e) ==
  /\ pc' = "done"
  /\ result' = e
  /\ project' = None
  /\ UNCHANGED <<i, j>>

\* One handler ran: its error ends parse, otherwise the walk moves on.
Step(r, ni, nj) ==
  IF r.err # "" THEN Fail(r.err)
  ELSE /\ project' = Some(r.project)
       /\ i' = ni
       /\ j' = nj
       /\ UNCHANGED <<pc, result>>

\* parse up to the XML reader's result.
Parse ==
  /\ pc = "start"
  /\ UNCHANGED <<inputs, searchVars>>
  /\ LET e == path_checks(path, isDir) IN
     IF e # "" THEN Fail(e) /\ UNCHANGED readerConsumed
     ELSE /\ readerConsumed' = TRUE
          /\ IF ~content.wf THEN Fail(FromIoError)
             ELSE /\ project' = Some(new_project(path))
                  /\ pc' = "walk"
                  /\ UNCHANGED <<i, j, result>>

HandlePropertyGroup ==
  /\ AtRoot
  /\ root_dispatch(Root[i].name) = "PropertyGroup"
  /\ Step(handle_property_group(project[1], Root[i]), i + 1, 1)
  /\ UNCHANGED <<inputs, readerConsumed, searchVars>>

SkipRootChild ==
  /\ AtRoot
  /\ root_dispatch(Root[i].name) = "ignore"
  /\ Step(Ok(project[1]), i + 1, 1)
  /\ UNCHANGED <<inputs, readerConsumed, searchVars>>

HandleProjectReference ==
  /\ AtItem
  /\ item_dispatch(Item.name) = "ProjectReference"
  /\ Step(project_reference_arm(project[1], Item), i, j + 1)
  /\ UNCHANGED <<inputs, readerConsumed, searchVars>>

HandlePackageReference ==
  /\ AtItem
  /\ item_dispatch(Item.name) = "PackageReference"
  /\ Step(package_reference_arm(project[1], Item), i, j + 1)
  /\ UNCHANGED <<inputs, readerConsumed, searchVars>>

SkipItem ==
  /\ AtItem
  /\ item_dispatch(Item.name) = "ignore"
  /\ Step(Ok(project[1]), i, j + 1)
  /\ UNCHANGED <<inputs, readerConsumed, searchVars>>

\* handle_item_group returns Ok(()) after its last child.
ItemGroupDone ==
  /\ AtRoot
  /\ root_dispatch(Root[i].name) = "ItemGroup"
  /\ j > Len(elements(Root[i]))
  /\ Step(Ok(project[1]), i + 1, 1)
  /\ UNCHANGED <<inputs, readerConsumed, searchVars>>

\* fill_project_based_on_xml returns Ok(()) and parse returns Ok(project).
Return ==
  /\ pc = "walk"
  /\ i > Len(Root)
  /\ pc' = "done"
  /\ result' = "Ok"
  /\ UNCHANGED <<inputs, readerConsumed, project, i, j, searchVars>>

Next ==
  \/ Parse
  \/ HandlePropertyGroup
  \/ SkipRootChild
  \/ HandleProjectReference
  \/ HandlePackageReference
  \/ SkipItem
  \/ ItemGroupDone
  \/ Return

Spec == Init /\ [][Next]_vars

----------------------------------------------------------------------------
(* search.rs *)

BLOCKED_DIRS_without_obj == {<<"bin">>, <<Dot, "git">>}
BLOCKED_DIRS == {<<"bin">>, <<Dot, "git">>, <<"obj">>}

\* The directory the search is started on.
RootPath == <<"repo">>

\* fs lists the entries below the root in the order fs::read_dir yields
\* them, every directory followed by its own entries one level deeper.
\* A symbolic link points to the root directory, an ancestor of every entry.
File(name) == [name |-> name, kind |-> "file", readable |-> TRUE]
Dir(name, readable) == [name |-> name, kind |-> "dir", readable |-> readable]
Link(name) == [name |-> name, kind |-> "symlink", readable |-> TRUE]
\* An entry for which `entry?` or `entry.file_type()?` is an error.
Broken(name) == [name |-> name, kind |-> "error", readable |-> FALSE]

Entries ==
  { File(<<"project1", Dot, "csproj">>),
    File(<<"project3", Dot, "fsproj">>),
    File(<<"project4", Dot, "vbproj">>),
    File(<<"project", Dot, "txt">>),
    Dir(<<"src">>, TRUE),
    Dir(<<"src">>, FALSE),
    Dir(<<"bin">>, TRUE),
    Dir(<<"obj">>, TRUE),
    Dir(<<Dot, "git">>, TRUE),
    Dir(<<"dir", Dot, "csproj">>, TRUE),
    Link(<<"link", Dot, "csproj">>),
    Broken(<<"broken">>) }

Depth(k) == IF k = 0 THEN 0 ELSE fs[k].depth

\* The directory that lists entry k (0 is the root).
Parent(k) ==
  LET above == {m \in 1..(k - 1) : fs[m].depth = fs[k].depth - 1} IN
  IF above = {} THEN 0 ELSE Max(above)

\* The entry that fs::read_dir yields after entry k of directory d (after
\* none when k = 0); 0 when the listing is exhausted.
NextEntry(d, k) ==
  LET rest == {m \in (k + 1)..Len(fs) : Parent(m) = d} IN
  IF rest = {} THEN 0 ELSE Min(rest)

\* The directory that fs::read_dir lists for the path of entry k: the
\* operating system follows a symbolic link.
Resolve(k) == IF k # 0 /\ fs[k].kind = "symlink" THEN 0 ELSE k

read_dir_never_fails(d) == "Ok"
\* fs::read_dir(path)?
read_dir(d) ==
  IF d = 0 THEN (IF rootReadable THEN "Ok" ELSE "IoError")
  ELSE IF fs[d].readable THEN "Ok" ELSE "IoError"

\* DirEntry::file_type().is_dir(): the type of the entry itself, a symbolic
\* link is not followed.
is_dir_following_links(k) == fs[k].kind \in {"dir", "symlink"}
is_dir(k) == fs[k].kind = "dir"

\* Path::ends_with for a one-component suffix.
ends_with(p, child) == file_name(p) = Some(child)

is_blocked(entry_path) == \E dir \in BLOCKED_DIRS : ends_with(entry_path, dir)

has_valid_extension(entry_path) ==
  extension(entry_path) # None /\ \E ext \in VALID_EXTENSIONS : ext = extension(entry_path)[1]

append_results_in_front(results, sub) == sub \o results
\* results.append(&mut search_projects(&entry_path)?)
append_results(results, sub) == results \o sub

\* A call of search_projects: the entry it was called for, the directory it
\* lists, its path, the next entry of its loop and its results.
Frame(k, p) ==
  [entry |-> k, dir |-> Resolve(k), path |-> p,
   next |-> NextEntry(Resolve(k), 0), results |-> <<>>]

Top == stack[Len(stack)]
AtEntry == sPc = "run" /\ stack # <<>> /\ Top.next # 0
entry_path == Top.path \o <<Sep>> \o fs[Top.next].name
Recurses == is_dir(Top.next) /\ ~is_blocked(entry_path)

\* An io::Error leaves every active call through `?`.
SearchFail ==
  /\ sPc' = "done"
  /\ sResult' = "IoError"
  /\ stack' = <<>>
  /\ returned' = None

Advance(results) ==
  /\ stack' = [stack EXCEPT ![Len(stack)].next = NextEntry(Top.dir, Top.next),
                             ![Len(stack)].results = results]
  /\ UNCHANGED <<sPc, sResult, returned>>

\* search_projects(root) reads the root directory.
SearchStart ==
  /\ sPc = "start"
  /\ IF read_dir(0) = "Ok"
     THEN /\ stack' = <<Frame(0, RootPath)>>
          /\ sPc' = "run"
          /\ UNCHANGED <<sResult, returned>>
     ELSE SearchFail
  /\ UNCHANGED <<fs, rootReadable, visited, parseVars>>

\* `entry?` or `entry.file_type()?` fails.
EntryError ==
  /\ AtEntry
  /\ fs[Top.next].kind = "error"
  /\ SearchFail
  /\ visited' = Append(visited, Top.next)
  /\ UNCHANGED <<fs, rootReadable, parseVars>>

\* A directory that is not blocked: the recursive call reads it.
Descend ==
  /\ AtEntry
  /\ fs[Top.next].kind # "error"
  /\ Recurses
  /\ IF read_dir(Resolve(Top.next)) = "Ok"
     THEN /\ stack' = Append([stack EXCEPT ![Len(stack)].next = NextEntry(Top.dir, Top.next)],
                             Frame(Top.next, entry_path))
          /\ UNCHANGED <<sPc, sResult, returned>>
     ELSE SearchFail
  /\ visited' = Append(visited, Top.next)
  /\ UNCHANGED <<fs, rootReadable, parseVars>>

\* Any other entry with a valid extension is pushed.
PushProject ==
  /\ AtEntry
  /\ fs[Top.next].kind # "error"
  /\ ~Recurses
  /\ has_valid_extension(entry_path)
  /\ Advance(Append(Top.results, entry_path))
  /\ visited' = Append(visited, Top.next)
  /\ UNCHANGED <<fs, rootReadable, parseVars>>

SkipEntry ==
  /\ AtEntry
  /\ fs[Top.next].kind # "error"
  /\ ~Recurses
  /\ ~has_valid_extension(entry_path)
  /\ Advance(Top.results)
  /\ visited' = Append(visited, Top.next)
  /\ UNCHANGED <<fs, rootReadable, parseVars>>

\* Ok(results): to the caller's append, or out of the outermost call.
ReturnCall ==
  /\ sPc = "run"
  /\ stack # <<>>
  /\ Top.next = 0
  /\ IF Len(stack) = 1
     THEN /\ sPc' = "done"
          /\ sResult' = "Ok"
          /\ returned' = Some(Top.results)
          /\ stack' = <<>>
     ELSE /\ stack' = [SubSeq(stack, 1, Len(stack) - 1) EXCEPT
                         ![Len(stack) - 1].results = append_results(@, Top.results)]
          /\ UNCHANGED <<sPc, sResult, returned>>
  /\ UNCHANGED <<fs, rootReadable, visited, parseVars>>

\* No parse is running.
ParseIdle ==
  /\ path = <<>>
  /\ isDir = FALSE
  /\ content = Content(TRUE, <<>>)
  /\ readerConsumed = FALSE
  /\ pc = "idle"
  /\ project = None
  /\ i = 1
  /\ j = 1
  /\ result = ""

\* The depth of the first entry is 1 and an entry is at most one level
\* deeper than the entry before it.
IsListing(d) ==
  \A k \in 1..Len(d) : IF k = 1 THEN d[k] = 1 ELSE d[k] <= d[k - 1] + 1

\* Only a directory has entries, and no two entries of a directory share a name.
IsTree(d, e) ==
  /\ \A k \in 2..Len(d) : d[k] = d[k - 1] + 1 => e[k - 1].kind = "dir"
  /\ \A k, m \in 1..Len(d) :
       (k < m /\ d[k] = d[m] /\ e[k].name = e[m].name) =>
         \E x \in (k + 1)..(m - 1) : d[x] < d[k]

SearchInit ==
  /\ \E n \in 0..MaxEntries : \E d \in [1..n -> 1..n] :
       /\ IsListing(d)
       /\ \E e \in [1..n -> Entries] :
            /\ IsTree(d, e)
            /\ fs = [k \in 1..n |->
                       [name |-> e[k].name, kind |-> e[k].kind,
                        readable |-> e[k].readable, depth |-> d[k]]]
  /\ rootReadable \in BOOLEAN
  /\ sPc = "start"
  /\ stack = <<>>
  /\ visited = <<>>
  /\ returned = None
  /\ sResult = ""
  /\ ParseIdle

SearchNext ==
  \/ SearchStart
  \/ EntryError
  \/ Descend
  \/ PushProject
  \/ SkipEntry
  \/ ReturnCall

SearchSpec == SearchInit /\ [][SearchNext]_vars

----------------------------------------------------------------------------
(* Vocabulary of the properties *)

Done == pc = "done"
Succeeded == Done /\ result = "Ok"

HasAtt(e, n) == \E k \in 1..Len(e.atts) : e.atts[k].name = n
AttVal(e, n) == e.atts[CHOOSE k \in 1..Len(e.atts) : e.atts[k].name = n].value
Slashed(s) == [k \in 1..Len(s) |-> IF s[k] = Bsl THEN Sep ELSE s[k]]

\* The children of the root-level ItemGroup elements, in document order.
RECURSIVE ItemsOf(_)
ItemsOf(rs) ==
  IF rs = <<>> THEN <<>>
  ELSE (IF Head(rs).name = "ItemGroup" THEN elements(Head(rs)) ELSE <<>>) \o ItemsOf(Tail(rs))

RootItems == ItemsOf(Root)

\* A reference element that lacks a required attribute.
Defective(e) ==
  \/ e.name = "ProjectReference" /\ ~HasAtt(e, "Include")
  \/ e.name = "PackageReference" /\ (~HasAtt(e, "Include") \/ ~HasAtt(e, "Version"))

\* A ProjectReference whose Include has no file stem.
Stemless(e) ==
  /\ e.name = "ProjectReference"
  /\ HasAtt(e, "Include")
  /\ file_stem(Slashed(AttVal(e, "Include"))) = None

RefsComplete == \A k \in 1..Len(RootItems) : ~Defective(RootItems[k]) /\ ~Stemless(RootItems[k])

\* A PropertyGroup whose TargetFramework child has text.
SuppliesFramework(e) ==
  /\ e.name = "PropertyGroup"
  /\ opt(e, "TargetFramework") # None
  /\ text(opt(e, "TargetFramework")).ok
  /\ text(opt(e, "TargetFramework")).val # None

\* A PropertyGroup whose TargetFramework child has no extractable text.
UnreadableFramework(e) ==
  e.name = "PropertyGroup" /\ ~text(opt(e, "TargetFramework")).ok

\* A PropertyGroup the walk asks for its TargetFramework: none before it supplied one.
Consulted(k) ==
  Root[k].name = "PropertyGroup" /\ \A m \in 1..(k - 1) : ~SuppliesFramework(Root[m])

FrameworksReadable == \A k \in 1..Len(Root) : Consulted(k) => ~UnreadableFramework(Root[k])

RecognizedExtension(p) == extension(p) # None /\ extension(p)[1] \in VALID_EXTENSIONS

ExpectedLanguage(p) ==
  CASE extension(p) = Some(<<"csproj">>) -> "CSharp"
    [] extension(p) = Some(<<"fsproj">>) -> "FSharp"
    [] extension(p) = Some(<<"vbproj">>) -> "VB"
    [] OTHER -> "none"

UnicodeStem(p) == file_stem(p) # None /\ \A k \in 1..Len(file_stem(p)[1]) : file_stem(p)[1][k] # BadByte

----------------------------------------------------------------------------
(* C1 *)

\* C1 as stated: for every non-directory path with extension csproj, fsproj or
\* vbproj, parse of well-formed content whose references are all complete
\* succeeds with the language mapped from the extension, and no successful
\* parse has another language.
C1_AsStated ==
  /\ (Done /\ ~isDir /\ RecognizedExtension(path) /\ content.wf /\ RefsComplete)
        => (result = "Ok" /\ project # None /\ project[1].language = ExpectedLanguage(path))
  /\ Succeeded => project[1].language = ExpectedLanguage(path)

\* C1 (amended): the same, for paths whose file stem is valid Unicode and
\* documents in which every PropertyGroup consulted for its TargetFramework
\* has extractable text there.
C1_LanguageFromExtension ==
  /\ (Done /\ ~isDir /\ RecognizedExtension(path) /\ UnicodeStem(path)
        /\ content.wf /\ RefsComplete /\ FrameworksReadable)
        => (result = "Ok" /\ project # None /\ project[1].language = ExpectedLanguage(path))
  /\ Succeeded => project[1].language = ExpectedLanguage(path)

C1_Witness ==
  /\ Succeeded
  /\ project[1].language = "FSharp"
  /\ Len(project[1].project_references) + Len(project[1].package_references) >= 1
  /\ project[1].target_framework # None

----------------------------------------------------------------------------
(* C2 *)

\* C2: for every non-directory path whose extension is absent or unrecognized,
\* the hidden file ".csproj" included, parse fails with FileIsNotAProject
\* whatever the content is.
C2_NotAProject ==
  (Done /\ ~isDir /\ (~RecognizedExtension(path) \/ path = <<Dot, Sep, Dot, "csproj">>))
    => (result = "FileIsNotAProject" /\ project = None)

C2_Witness ==
  /\ Done
  /\ ~isDir
  /\ path = <<Dot, Sep, Dot, "csproj">>
  /\ content.wf
  /\ RefsComplete
  /\ Len(RootItems) >= 1
  /\ result = "FileIsNotAProject"

----------------------------------------------------------------------------
(* C3 *)

\* C3: for a directory, parse fails with PathIsNotAFile without reading from
\* the reader, whatever the name's extension and the content are.
C3_DirectoryFirst ==
  isDir => /\ ~readerConsumed
           /\ project = None
           /\ Done => result = "PathIsNotAFile"

C3_Witness ==
  /\ Done
  /\ isDir
  /\ RecognizedExtension(path)
  /\ content.wf
  /\ result = "PathIsNotAFile"

----------------------------------------------------------------------------
(* C4 *)

\* The text of TargetFramework in the first of the first n root children that
\* is a PropertyGroup with such text, if any.
FirstFramework(n) ==
  LET S == {k \in 1..n : SuppliesFramework(Root[k])} IN
  IF S = {} THEN None
  ELSE Some(opt(Root[Min(S)], "TargetFramework")[1].nodes[1].text)

\* C4: the target framework is first-writer-wins over the root-level
\* PropertyGroups in document order: after the walk has passed n root children
\* it is the text of TargetFramework in the first PropertyGroup among them
\* that has it, whatever PropertyGroups with or without one come later, and
\* it is absent if there is none.
C4_FirstWriterWins ==
  project # None => project[1].target_framework = FirstFramework(i - 1)

C4_Witness ==
  /\ Succeeded
  /\ \E a, b, c \in 1..Len(Root) :
       /\ a < b /\ b < c
       /\ Root[a].name = "PropertyGroup" /\ ~SuppliesFramework(Root[a])
       /\ SuppliesFramework(Root[b])
       /\ SuppliesFramework(Root[c])
       /\ text(opt(Root[b], "TargetFramework")).val # text(opt(Root[c], "TargetFramework")).val
       /\ project[1].target_framework = FirstFramework(b)

----------------------------------------------------------------------------
(* C5 *)

IsPrefix(s, t) == Len(s) <= Len(t) /\ SubSeq(t, 1, Len(s)) = s

Named(n) == SelectSeq(RootItems, LAMBDA e : e.name = n)

ExpectedProjectReferences ==
  [k \in 1..Len(Named("ProjectReference")) |->
     LET inc == Slashed(AttVal(Named("ProjectReference")[k], "Include")) IN
     [name |-> file_stem(inc)[1], path |-> inc]]

ExpectedPackageReferences ==
  [k \in 1..Len(Named("PackageReference")) |->
     [name |-> AttVal(Named("PackageReference")[k], "Include"),
      version |-> AttVal(Named("PackageReference")[k], "Version")]]

C5_Step ==
  /\ (project # None /\ project' # None) =>
       /\ IsPrefix(project[1].project_references, project'[1].project_references)
       /\ IsPrefix(project[1].package_references, project'[1].package_references)
  /\ (pc' = "done" /\ result' = "Ok") =>
       /\ project'[1].project_references = ExpectedProjectReferences
       /\ project'[1].package_references = ExpectedPackageReferences

\* C5: every step of the walk only appends to the reference lists, and on
\* success they are the ProjectReference and the PackageReference children of
\* the root-level ItemGroups in document order, repetitions included.
C5_DocumentOrder == [][C5_Step]_vars

C5_Witness ==
  /\ Succeeded
  /\ \E a, b \in 1..Len(Root) :
       /\ a < b
       /\ Root[a].name = "ItemGroup" /\ Root[b].name = "ItemGroup"
       /\ Len(elements(Root[a])) = 1
       /\ elements(Root[a]) = elements(Root[b])
  /\ Len(project[1].package_references) = 2
  /\ project[1].package_references[1] = project[1].package_references[2]

----------------------------------------------------------------------------
(* C6 *)

\* C6: every stored project reference has as path the Include value with each
\* backslash replaced by a slash and nothing else changed, and as name the
\* file stem of that path.
C6_NormalizedPath ==
  project # None =>
    \A k \in 1..Len(project[1].project_references) :
      LET ref == project[1].project_references[k]
          inc == AttVal(Named("ProjectReference")[k], "Include") IN
      /\ Len(ref.path) = Len(inc)
      /\ \A m \in 1..Len(inc) : ref.path[m] = (IF inc[m] = Bsl THEN Sep ELSE inc[m])
      /\ file_stem(ref.path) = Some(ref.name)

C6_Witness ==
  /\ Succeeded
  /\ \E k \in 1..Len(project[1].project_references) :
       /\ AttVal(Named("ProjectReference")[k], "Include") = IncludeA
       /\ project[1].project_references[k].path = <<Dot, Dot, Sep, "A", Sep, "A", Dot, "csproj">>
       /\ project[1].project_references[k].name = <<"A">>
       /\ file_stem(IncludeA) # Some(<<"A">>)

----------------------------------------------------------------------------
(* C7 *)

\* A path that passes every check of parse on its path.
ValidProjectPath == ~isDir /\ RecognizedExtension(path) /\ UnicodeStem(path)

DefectiveItems == {k \in 1..Len(RootItems) : Defective(RootItems[k])}

\* C7 as stated: a reference element that lacks a required attribute makes
\* parse of well-formed XML under a valid project path fail with
\* DeserializationError, wherever the element is.
C7_AsStated ==
  (Done /\ ValidProjectPath /\ content.wf /\ DefectiveItems # {})
    => (result = "DeserializationError" /\ project = None)

\* C7 (amended): such a parse fails and returns no project; the error is
\* DeserializationError unless a ProjectReference whose Include has no file
\* stem comes before the first defective element, and then it is
\* DeserializationError or FileDoesNotHaveAName.
C7_MissingAttributeFails ==
  (Done /\ ValidProjectPath /\ content.wf /\ DefectiveItems # {})
    => /\ project = None
       /\ result \in {"DeserializationError", "FileDoesNotHaveAName"}
       /\ (\A k \in 1..(Min(DefectiveItems) - 1) : ~Stemless(RootItems[k]))
            => result = "DeserializationError"

C7_Witness ==
  /\ Done
  /\ ValidProjectPath
  /\ content.wf
  /\ FrameworksReadable
  /\ DefectiveItems = {Len(RootItems)}
  /\ Len(RootItems) >= 2
  /\ Root[Len(Root)].name = "ItemGroup"
  /\ Len(elements(Root[Len(Root)])) = 1
  /\ result = "DeserializationError"

----------------------------------------------------------------------------
(* C8 *)

\* C8: under a valid project path, content that is not well-formed XML makes
\* parse fail with IoError, also when an element in it lacks a required
\* attribute: the walk starts only on a document that was parsed whole.
C8_MalformedIsIoError ==
  /\ (Done /\ ValidProjectPath /\ ~content.wf) => (result = "IoError" /\ project = None)
  /\ pc = "walk" => content.wf

C8_Witness ==
  /\ Done
  /\ ValidProjectPath
  /\ ~content.wf
  /\ DefectiveItems # {}
  /\ result = "IoError"

----------------------------------------------------------------------------
(* C9 *)

\* C9 as stated: parse returns DeserializationError only when a reference
\* element lacks a required attribute.
C9_AsStated ==
  (Done /\ result = "DeserializationError") => DefectiveItems # {}

\* C9 (amended): parse returns DeserializationError only when a reference
\* element lacks a required attribute or when a PropertyGroup, with no
\* target framework supplied before it, has a TargetFramework child whose
\* text cannot be extracted.
C9_DeserializationErrorCauses ==
  (Done /\ result = "DeserializationError")
    => (DefectiveItems # {} \/ ~FrameworksReadable)

C9_Witness ==
  /\ Done
  /\ result = "DeserializationError"
  /\ DefectiveItems = {}
  /\ Len(RootItems) >= 1
  /\ ~FrameworksReadable

----------------------------------------------------------------------------
(* C10 *)

IgnoredRootChild ==
  /\ pc = "walk"
  /\ i <= Len(Root)
  /\ Root[i].name \notin {"PropertyGroup", "ItemGroup"}

IgnoredItem ==
  /\ pc = "walk"
  /\ i <= Len(Root)
  /\ Root[i].name = "ItemGroup"
  /\ j <= Len(elements(Root[i]))
  /\ elements(Root[i])[j].name \notin {"ProjectReference", "PackageReference"}

C10_Step ==
  (IgnoredRootChild \/ IgnoredItem)
    => (project' = project /\ pc' = "walk" /\ result' = "")

\* C10: the step of the walk over a root child named neither PropertyGroup
\* nor ItemGroup, or over an ItemGroup child named neither ProjectReference
\* nor PackageReference, changes no field of the project and does not end
\* parse, whatever attributes and children the element has.
C10_IgnoredElements == [][C10_Step]_vars

C10_Witness ==
  /\ Succeeded
  /\ \E k \in 1..Len(Root) : Root[k] = Target
  /\ \E k \in 1..Len(RootItems) : RootItems[k] = Compile
  /\ Len(project[1].project_references) + Len(project[1].package_references) = 1
  /\ Len(RootItems) = 2

----------------------------------------------------------------------------
(* C15 *)

UnicodePath(p) == \A k \in 1..Len(p) : p[k] # BadByte

\* C15: for a main path that is valid Unicode, a recognized extension comes
\* with an extractable file stem, so FileDoesNotHaveAName is never due to the
\* main path: parse returns it only at a ProjectReference whose normalized
\* Include has no file stem.
C15_NameOnlyFromReference ==
  UnicodePath(path) =>
    /\ (pc # "idle" /\ RecognizedExtension(path)) => file_stem(path) # None
    /\ (Done /\ result = "FileDoesNotHaveAName") =>
         /\ ValidProjectPath
         /\ content.wf
         /\ i <= Len(Root)
         /\ Root[i].name = "ItemGroup"
         /\ j <= Len(elements(Root[i]))
         /\ Stemless(elements(Root[i])[j])

C15_Witness ==
  /\ Done
  /\ path = <<Dot, Sep, Dot, Dot, "csproj">>
  /\ file_stem(path) = Some(<<Dot>>)
  /\ result = "FileDoesNotHaveAName"
  /\ Stemless(elements(Root[i])[j])
  /\ j = 2

----------------------------------------------------------------------------
(* Properties of search_projects *)

SearchDone == sPc = "done"
Range(seq) == {seq[k] : k \in 1..Len(seq)}

RECURSIVE PathOf(_)
PathOf(k) == IF k = 0 THEN RootPath ELSE PathOf(Parent(k)) \o <<Sep>> \o fs[k].name

RECURSIVE Ancestors(_)
Ancestors(k) == IF Parent(k) = 0 THEN {} ELSE {Parent(k)} \cup Ancestors(Parent(k))

BlockedName(name) == name \in {<<"bin">>, <<Dot, "git">>, <<"obj">>}

\* Every directory between the root and entry k has a name that is not blocked.
Reachable(k) == \A a \in Ancestors(k) : ~BlockedName(fs[a].name)

Matching(k) ==
  /\ Len(fs[k].name) >= 3
  /\ fs[k].name[Len(fs[k].name) - 1] = Dot
  /\ fs[k].name[Len(fs[k].name)] \in {"csproj", "fsproj", "vbproj"}

\* The search reads the directory of entry k, or the entry itself, and fails.
Failing(k) ==
  /\ Reachable(k)
  /\ \/ fs[k].kind = "error"
     \/ fs[k].kind = "dir" /\ ~BlockedName(fs[k].name) /\ ~fs[k].readable

AllReadsSucceed == rootReadable /\ \A k \in 1..Len(fs) : ~Failing(k)

MatchingFiles == {k \in 1..Len(fs) : fs[k].kind = "file" /\ Matching(k) /\ Reachable(k)}

\* The entries whose own file type is not a directory: regular files and
\* symbolic links, whatever a link points to.
MatchingEntries == {k \in 1..Len(fs) : fs[k].kind # "dir" /\ Matching(k) /\ Reachable(k)}

ReturnsExactly(S) ==
  /\ sResult = "Ok"
  /\ returned # None
  /\ Range(returned[1]) = {PathOf(k) : k \in S}
  /\ Len(returned[1]) = Cardinality(S)

RECURSIVE DepthFirst(_, _)
DepthFirst(d, k) ==
  IF k = 0 THEN <<>>
  ELSE (IF fs[k].kind = "dir" /\ ~BlockedName(fs[k].name)
          THEN DepthFirst(k, NextEntry(k, 0))
        ELSE IF Matching(k) THEN <<PathOf(k)>>
        ELSE <<>>)
       \o DepthFirst(d, NextEntry(d, k))

Below(p, k) ==
  /\ Len(p) > Len(PathOf(k))
  /\ SubSeq(p, 1, Len(PathOf(k)) + 1) = PathOf(k) \o <<Sep>>

VisitedUntilFailure ==
  IF ~rootReadable THEN {}
  ELSE {k \in 1..Len(fs) : Reachable(k) /\ \A f \in 1..Len(fs) : Failing(f) => k <= f}

\* C13: if a directory read (or the read of one of its entries) fails at any
\* depth, the whole call returns the I/O error at once: no entry after the
\* failing one is visited, no call remains active and none of the paths
\* collected before the failure is returned; without a failure the call is Ok.
C13_ErrorAborts ==
  SearchDone =>
    /\ sResult = "IoError" <=> ~AllReadsSucceed
    /\ sResult = "IoError" =>
         /\ returned = None
         /\ stack = <<>>
         /\ Range(visited) = VisitedUntilFailure
         /\ \A a, b \in 1..Len(visited) : a < b => visited[a] < visited[b]

C13_Witness ==
  /\ SearchDone
  /\ sResult = "IoError"
  /\ returned = None
  /\ visited = <<1, 2, 3>>
  /\ fs[1].kind = "file" /\ Matching(1)
  /\ fs[3].depth = 2
  /\ fs[3].kind = "dir" /\ ~fs[3].readable

VisitedLink == \E n \in 1..Len(visited) : fs[visited[n]].kind = "symlink"

\* C14 as stated: a symbolic link to an ancestor directory is descended into,
\* so a search that has come to such a link never returns.
C14_AsStated == VisitedLink => ~SearchDone

\* What is left to do: the entries not yet taken, counted twice, the active
\* calls, and the first read of the root.
Measure ==
  2 * (Len(fs) - Len(visited)) + Len(stack) + (IF sPc = "start" THEN 2 ELSE 0)

C14_Step ==
  /\ Measure' < Measure
  /\ Measure' >= 0
  /\ \A n \in 1..Len(stack') :
       stack'[n].entry = 0 \/ fs[stack'[n].entry].kind = "dir"
  /\ (AtEntry /\ fs[Top.next].kind = "symlink") =>
       /\ Len(stack') = Len(stack)
       /\ stack'[Len(stack)].results =
            IF Matching(Top.next) THEN Append(Top.results, PathOf(Top.next)) ELSE Top.results

\* C14: search_projects does not follow symbolic links: a link to a directory,
\* also to one of its own ancestors, is treated as a plain entry (returned if
\* its extension matches, never descended into), every active call was entered
\* through a real directory, and every step takes an entry or ends a call, so
\* the search of a finite tree ends whether or not links form a cycle.
C14_LinksNotFollowed == [][C14_Step]_vars

C14_Witness ==
  /\ SearchDone
  /\ sResult = "Ok"
  /\ VisitedLink
  /\ Len(fs) = 3
  /\ fs[2].kind = "symlink" /\ fs[2].depth = 2
  /\ Len(visited) = 3
  /\ returned # None /\ PathOf(2) \in Range(returned[1])
====
